---- MODULE Spec2Model ----
(***************************************************************************)
(* Model of the Twitter Thread plugin (src/main.ts): the createTweets      *)
(* segmenter with splitLongWord, and the maxTweetLength setting as it is   *)
(* loaded from disk and edited in the settings tab.                        *)
(*                                                                         *)
(* A string is a sequence of one-character strings, so that length, split, *)
(* join, trim and slice are computed as the JavaScript code computes them. *)
(***************************************************************************)
EXTENDS Integers, Sequences, FiniteSets, TLC

\* ---------------------------------------------------------------- bounds
\* Longest input text, in characters.
MaxLen == 8
\* Largest maxLength passed to createTweets.
MaxM == 5
\* Longest value typed into the settings text field, in characters.
MaxField == 3

\* Characters of the input texts: a letter, a sentence terminator, a blank.
Alphabet == {"a", ".", " "}
\* Characters typed into the settings text field.
FieldAlphabet == {"-", "0", "1", "a", " "}

\* ------------------------------------------------------- string helpers
\* /\s/ : the white space the regular expression and trim() recognise.
IsSpace(c) == c \in {" ", "\n", "\t", "\r"}
\* /[.!?]/
IsTerminator(c) == c \in {".", "!", "?"}

\* All strings over alphabet A of length at most n.
StringsUpTo(A, n) == UNION {[1..k -> A] : k \in 0..n}

Min(a, b) == IF a <= b THEN a ELSE b

\* Array.prototype.slice(from) / slice(from, to) with 0-based bounds.
Slice(s, from, to) == SubSeq(s, from + 1, Min(to, Len(s)))

\* String.prototype.split(/\s+/): the pieces between runs of white space;
\* a leading or trailing run leaves an empty piece at that end, and the
\* empty string gives one empty piece.
RECURSIVE SplitRec(_, _, _, _)
SplitRec(s, i, cur, acc) ==
    IF i > Len(s) THEN Append(acc, cur)
    ELSE IF IsSpace(s[i])
         THEN IF i > 1 /\ IsSpace(s[i - 1])
              THEN SplitRec(s, i + 1, cur, acc)
              ELSE SplitRec(s, i + 1, <<>>, Append(acc, cur))
         ELSE SplitRec(s, i + 1, Append(cur, s[i]), acc)

SplitWhitespace(s) == SplitRec(s, 1, <<>>, <<>>)

\* Array.prototype.join(" ")
RECURSIVE JoinRec(_, _)
JoinRec(ws, i) ==
    IF i > Len(ws) THEN <<>>
    ELSE IF i = Len(ws) THEN ws[i]
    ELSE ws[i] \o <<" ">> \o JoinRec(ws, i + 1)

buildTweet(wordsArray) == JoinRec(wordsArray, 1)

\* String.prototype.trim()
RECURSIVE TrimLeft(_)
TrimLeft(s) ==
    IF s # <<>> /\ IsSpace(Head(s)) THEN TrimLeft(Tail(s)) ELSE s

RECURSIVE TrimRight(_)
TrimRight(s) ==
    IF s # <<>> /\ IsSpace(s[Len(s)]) THEN TrimRight(SubSeq(s, 1, Len(s) - 1)) ELSE s

NoTrim(s) == s

Trim(s) == TrimRight(TrimLeft(s))

\* /[.!?]$/.test(word)
EndsSentence(word) == word # <<>> /\ IsTerminator(word[Len(word)])

\* ------------------------------------------------------- splitLongWord
RECURSIVE SplitLoop(_, _, _, _)
SplitLoop(word, maxLen, start, parts) ==
    IF start < Len(word)
    THEN SplitLoop(word, maxLen, start + maxLen,
                   Append(parts, Slice(word, start, start + maxLen)))
    ELSE parts

splitLongWord(word, maxLen) == SplitLoop(word, maxLen, 0, <<>>)

\* --------------------------------------------------------- createTweets
\* The loop state of createTweets is the record
\*   [cw |-> currentWords, lsb |-> lastSentenceBreak, tw |-> tweets].
LoopStart == [cw |-> <<>>, lsb |-> -1, tw |-> <<>>]

\* candidateTweet.length <= maxLength, with candidateWords = [...currentWords, word]
Fits(cw, word, maxLen) == Len(buildTweet(Append(cw, word))) <= maxLen

\* currentWords.push(word), and the marker moves to it if it ends a sentence.
PushWord(st, word) ==
    LET cw2 == Append(st.cw, word)
    IN [st EXCEPT !.cw = cw2,
                  !.lsb = IF EndsSentence(word) THEN Len(cw2) - 1 ELSE st.lsb]

FlushKeepMarker(st) ==
    IF st.lsb # -1
    THEN [cw  |-> Slice(st.cw, st.lsb + 1, Len(st.cw)),
          lsb |-> st.lsb,
          tw  |-> Append(st.tw, Trim(buildTweet(Slice(st.cw, 0, st.lsb + 1))))]
    ELSE IF Len(st.cw) > 0
         THEN [cw |-> <<>>, lsb |-> -1, tw |-> Append(st.tw, Trim(buildTweet(st.cw)))]
         ELSE [st EXCEPT !.lsb = -1]

FlushWholeBuffer(st) ==
    IF Len(st.cw) > 0
    THEN [cw |-> <<>>, lsb |-> -1, tw |-> Append(st.tw, Trim(buildTweet(st.cw)))]
    ELSE [st EXCEPT !.lsb = -1]

FlushDropRemainder(st) ==
    IF st.lsb # -1
    THEN [cw  |-> <<>>,
          lsb |-> -1,
          tw  |-> Append(st.tw, Trim(buildTweet(Slice(st.cw, 0, st.lsb + 1))))]
    ELSE IF Len(st.cw) > 0
         THEN [cw |-> <<>>, lsb |-> -1, tw |-> Append(st.tw, Trim(buildTweet(st.cw)))]
         ELSE [st EXCEPT !.lsb = -1]

\* The candidate exceeds maxLength: cut at the sentence break if there is
\* one and keep the words after it, else push the whole buffer; then reset
\* the marker.
FlushOnOverflow(st) ==
    IF st.lsb # -1
    THEN [cw  |-> Slice(st.cw, st.lsb + 1, Len(st.cw)),
          lsb |-> -1,
          tw  |-> Append(st.tw, Trim(buildTweet(Slice(st.cw, 0, st.lsb + 1))))]
    ELSE IF Len(st.cw) > 0
         THEN [cw |-> <<>>, lsb |-> -1, tw |-> Append(st.tw, Trim(buildTweet(st.cw)))]
         ELSE [st EXCEPT !.lsb = -1]

PlacePartAlwaysMerge(st, part, idx, maxLen) ==
    IF idx = 0 /\ Len(st.cw) > 0
    THEN PushWord(st, part)
    ELSE LET flushed == IF Len(st.cw) > 0
                        THEN [st EXCEPT !.cw = <<>>,
                                        !.tw = Append(st.tw, Trim(buildTweet(st.cw)))]
                        ELSE st
         IN [flushed EXCEPT !.tw = Append(flushed.tw, part)]

\* The callback of parts.forEach: the first part merges with the buffer if
\* the two fit; any other part flushes the buffer and is pushed by itself.
PlacePart(st, part, idx, maxLen) ==
    IF idx = 0 /\ Len(st.cw) > 0 /\ Len(buildTweet(Append(st.cw, part))) <= maxLen
    THEN PushWord(st, part)
    ELSE LET flushed == IF Len(st.cw) > 0
                        THEN [st EXCEPT !.cw = <<>>,
                                        !.tw = Append(st.tw, Trim(buildTweet(st.cw)))]
                        ELSE st
         IN [flushed EXCEPT !.tw = Append(flushed.tw, part)]

\* parts.forEach((part, idx) => ...)
RECURSIVE PlaceParts(_, _, _, _)
PlaceParts(st, parts, idx, maxLen) ==
    IF idx >= Len(parts) THEN st
    ELSE PlaceParts(PlacePart(st, parts[idx + 1], idx, maxLen), parts, idx + 1, maxLen)

\* The callback of words.forEach.
ProcessWord(st, word, maxLen) ==
    IF Fits(st.cw, word, maxLen)
    THEN PushWord(st, word)
    ELSE LET fl == FlushOnOverflow(st)
         IN IF Len(word) > maxLen
            THEN PlaceParts(fl, splitLongWord(word, maxLen), 0, maxLen)
            ELSE PushWord(fl, word)

\* After the loop: what remains in the buffer is the final tweet.
FinalFlush(st) ==
    IF Len(st.cw) > 0
    THEN [st EXCEPT !.tw = Append(st.tw, Trim(buildTweet(st.cw)))]
    ELSE st

RECURSIVE ForEachWord(_, _, _, _)
ForEachWord(st, ws, i, maxLen) ==
    IF i > Len(ws) THEN st
    ELSE ForEachWord(ProcessWord(st, ws[i], maxLen), ws, i + 1, maxLen)

\* createTweets as a function of its arguments.
createTweets(text, maxLen) ==
    FinalFlush(ForEachWord(LoopStart, SplitWhitespace(text), 1, maxLen)).tw

\* ------------------------------------------------------------- settings
\* A value of the maxTweetLength property: a number, NaN, a JSON value that
\* is not a number, or no value at all.
Num(n) == [kind |-> "num", v |-> n]
NaN == [kind |-> "nan", v |-> 0]
NotANumber == [kind |-> "other", v |-> 0]
Absent == [kind |-> "absent", v |-> 0]

\* DEFAULT_SETTINGS.maxTweetLength
DefaultMaxTweetLength == 250

\* What data.json may hold for maxTweetLength when the plugin loads.
PersistedValues == {Absent, NotANumber, Num(-1), Num(0), Num(1), Num(280)}

IsDigit(c) == c \in {"0", "1", "2", "3", "4", "5", "6", "7", "8", "9"}

DigitValue(c) ==
    CASE c = "0" -> 0 [] c = "1" -> 1 [] c = "2" -> 2 [] c = "3" -> 3 [] c = "4" -> 4
      [] c = "5" -> 5 [] c = "6" -> 6 [] c = "7" -> 7 [] c = "8" -> 8 [] c = "9" -> 9

\* The value of the longest prefix of s made of decimal digits, after acc.
RECURSIVE DigitsPrefix(_, _, _)
DigitsPrefix(s, i, acc) ==
    IF i <= Len(s) /\ IsDigit(s[i])
    THEN DigitsPrefix(s, i + 1, 10 * acc + DigitValue(s[i]))
    ELSE acc

\* parseInt(value) on strings without a 0x prefix: leading white space is
\* skipped, then an optional sign, then the decimal digits up to the first
\* other character; NaN if there is no digit.
ParseInt(value) ==
    LET s    == TrimLeft(value)
        neg  == s # <<>> /\ Head(s) = "-"
        body == IF s # <<>> /\ Head(s) \in {"-", "+"} THEN Tail(s) ELSE s
    IN IF body = <<>> \/ ~IsDigit(Head(body))
       THEN NaN
       ELSE Num((IF neg THEN -1 ELSE 1) * DigitsPrefix(body, 1, 0))

\* The onChange callback's choice of the new maxTweetLength.
ChangedValue(value) ==
    LET parsed == ParseInt(value)
    IN IF parsed.kind # "nan" /\ parsed.v > 0
       THEN parsed
       ELSE Num(DefaultMaxTweetLength)

\* Object.assign({}, DEFAULT_SETTINGS, data).maxTweetLength
AssignSettings(data) ==
    IF data.kind = "absent" THEN Num(DefaultMaxTweetLength) ELSE data

\* ----------------------------------------------------------------- state
VARIABLES
    content,            \* createTweets: the text argument
    maxLength,          \* createTweets: the maxLength argument
    words,              \* content.split(/\s+/)
    pos,                \* number of words the forEach has processed
    currentWords,       \* the buffer
    lastSentenceBreak,  \* the marker, -1 for none
    tweets,             \* the chunks pushed so far
    pc,                 \* "start", "loop", "done"; "idle" when no call runs
    dataFile,           \* maxTweetLength as persisted by saveData
    settings,           \* this.settings.maxTweetLength
    fieldValue,         \* the text of the settings field
    loaded,             \* onload has run
    callArg             \* maxLength of the command's last createTweets call

segVars == <<content, maxLength, words, pos, currentWords, lastSentenceBreak, tweets, pc>>

setVars == <<dataFile, settings, fieldValue, loaded, callArg>>

vars == <<content, maxLength, words, pos, currentWords, lastSentenceBreak, tweets, pc,
          dataFile, settings, fieldValue, loaded, callArg>>

LoopState == [cw |-> currentWords, lsb |-> lastSentenceBreak, tw |-> tweets]

\* A call createTweets(content, maxLength) is about to run.
InitSeg ==
    /\ content \in StringsUpTo(Alphabet, MaxLen)
    /\ maxLength \in 1..MaxM
    /\ words = <<>>
    /\ pos = 0
    /\ currentWords = <<>>
    /\ lastSentenceBreak = -1
    /\ tweets = <<>>
    /\ pc = "start"

\* The plugin object is constructed and onload has not run yet.
InitPlugin ==
    /\ dataFile \in PersistedValues
    /\ settings = Absent
    /\ fieldValue = <<>>
    /\ loaded = FALSE
    /\ callArg = Absent

Init ==
    /\ InitSeg
    /\ dataFile = Absent
    /\ settings = Absent
    /\ fieldValue = <<>>
    /\ loaded = FALSE
    /\ callArg = Absent

InitSettings ==
    /\ InitPlugin
    /\ content = <<>>
    /\ maxLength = 1
    /\ words = <<>>
    /\ pos = 0
    /\ currentWords = <<>>
    /\ lastSentenceBreak = -1
    /\ tweets = <<>>
    /\ pc = "idle"

\* const words = content.split(/\s+/); tweets, currentWords, lastSentenceBreak set up.
SplitContent ==
    /\ pc = "start"
    /\ words' = SplitWhitespace(content)
    /\ pc' = "loop"
    /\ UNCHANGED <<content, maxLength, pos, currentWords, lastSentenceBreak, tweets>>
    /\ UNCHANGED setVars

\* One call of the forEach callback, on words[pos].
WordStep ==
    /\ pc = "loop"
    /\ pos < Len(words)
    /\ LET st2 == ProcessWord(LoopState, words[pos + 1], maxLength)
       IN /\ currentWords' = st2.cw
          /\ lastSentenceBreak' = st2.lsb
          /\ tweets' = st2.tw
    /\ pos' = pos + 1
    /\ UNCHANGED <<content, maxLength, words, pc>>
    /\ UNCHANGED setVars

\* The final push and the return.
Finish ==
    /\ pc = "loop"
    /\ pos = Len(words)
    /\ tweets' = FinalFlush(LoopState).tw
    /\ pc' = "done"
    /\ UNCHANGED <<content, maxLength, words, pos, currentWords, lastSentenceBreak>>
    /\ UNCHANGED setVars

\* onload: loadSettings merges the persisted data over the defaults.
LoadSettings ==
    /\ ~loaded
    /\ settings' = AssignSettings(dataFile)
    /\ fieldValue' = <<>>
    /\ loaded' = TRUE
    /\ UNCHANGED <<dataFile, callArg>>
    /\ UNCHANGED segVars

\* The settings field changes to value: onChange, with its saveSettings.
OnChange(value) ==
    /\ loaded
    /\ fieldValue' = value
    /\ settings' = ChangedValue(value)
    /\ dataFile' = settings'
    /\ UNCHANGED <<loaded, callArg>>
    /\ UNCHANGED segVars

\* The command runs: createTweets(content, this.settings.maxTweetLength).
RunCommand ==
    /\ loaded
    /\ callArg' = settings
    /\ UNCHANGED <<dataFile, settings, fieldValue, loaded>>
    /\ UNCHANGED segVars

\* onunload; the plugin may be loaded again later.
Unload ==
    /\ loaded
    /\ loaded' = FALSE
    /\ settings' = Absent
    /\ fieldValue' = <<>>
    /\ callArg' = Absent
    /\ UNCHANGED dataFile
    /\ UNCHANGED segVars

Next == SplitContent \/ WordStep \/ Finish

Spec == Init /\ [][Next]_vars

NextSettings ==
    \/ LoadSettings
    \/ \E value \in StringsUpTo(FieldAlphabet, MaxField) : OnChange(value)
    \/ RunCommand
    \/ Unload

SpecSettings == InitSettings /\ [][NextSettings]_vars

\* ------------------------------------------------- vocabulary of the claims
NonEmpty(ws) == SelectSeq(ws, LAMBDA w : w # <<>>)

\* The words of the input: its maximal runs of characters that are not white space.
RECURSIVE WordsFrom(_, _, _)
WordsFrom(s, i, cur) ==
    IF i > Len(s) THEN (IF cur = <<>> THEN <<>> ELSE <<cur>>)
    ELSE IF IsSpace(s[i])
         THEN (IF cur = <<>> THEN <<>> ELSE <<cur>>) \o WordsFrom(s, i + 1, <<>>)
         ELSE WordsFrom(s, i + 1, Append(cur, s[i]))

InputWords(s) == WordsFrom(s, 1, <<>>)

\* The words of a chunk: its pieces between space characters.
RECURSIVE ChunkWordsFrom(_, _, _)
ChunkWordsFrom(s, i, cur) ==
    IF i > Len(s) THEN (IF cur = <<>> THEN <<>> ELSE <<cur>>)
    ELSE IF s[i] = " "
         THEN (IF cur = <<>> THEN <<>> ELSE <<cur>>) \o ChunkWordsFrom(s, i + 1, <<>>)
         ELSE ChunkWordsFrom(s, i + 1, Append(cur, s[i]))

ChunkWords(chunk) == ChunkWordsFrom(chunk, 1, <<>>)

RECURSIVE AllChunkWords(_, _)
AllChunkWords(tw, i) ==
    IF i > Len(tw) THEN <<>> ELSE ChunkWords(tw[i]) \o AllChunkWords(tw, i + 1)

\* ceil(n / d)
CeilDiv(n, d) == (n + d - 1) \div d

\* The left-to-right slices of width maxLen of a word.
FixedWidthParts(w, maxLen) ==
    [k \in 1..CeilDiv(Len(w), maxLen) |->
        SubSeq(w, (k - 1) * maxLen + 1, Min(k * maxLen, Len(w)))]

\* The word sequence with every over-long word replaced by its slices.
RECURSIVE ExpandWords(_, _, _)
ExpandWords(ws, i, maxLen) ==
    IF i > Len(ws) THEN <<>>
    ELSE (IF Len(ws[i]) > maxLen THEN FixedWidthParts(ws[i], maxLen) ELSE <<ws[i]>>)
         \o ExpandWords(ws, i + 1, maxLen)

\* The loop state before the word processed last.
PrevLoopState == ForEachWord(LoopStart, SubSeq(words, 1, pos - 1), 1, maxLength)

\* The last word processed overflowed a buffer that had a sentence break
\* with words after it.
CutWithRemainder ==
    /\ pc = "loop"
    /\ pos >= 1
    /\ PrevLoopState.lsb # -1
    /\ ~Fits(PrevLoopState.cw, words[pos], maxLength)
    /\ Len(PrevLoopState.cw) > PrevLoopState.lsb + 1

\* The forEach callback is about to run on a word that overflows the buffer.
OverflowStep ==
    /\ pc = "loop"
    /\ pos < Len(words)
    /\ pos' = pos + 1
    /\ ~Fits(currentWords, words[pos + 1], maxLength)

\* ------------------------------------------------------------------ C1
\* C1: every chunk createTweets returns (and every chunk pushed so far) has
\* length <= maxLength.
C1_ChunksWithinMaxLength ==
    \A i \in 1..Len(tweets) : Len(tweets[i]) <= maxLength

\* ------------------------------------------------------------------ C2
\* C2: the words of the returned chunks, in chunk order, are exactly the
\* words of the input in order, each word longer than maxLength replaced
\* by its fixed-width slices.
C2_WordsPreserved ==
    pc = "done" =>
        AllChunkWords(tweets, 1) = ExpandWords(InputWords(content), 1, maxLength)

C2_Witness ==
    /\ pc = "done"
    /\ Len(tweets) >= 3
    /\ \E i \in 1..Len(words) : Len(words[i]) > maxLength
    /\ \E i \in 1..Len(tweets) : Len(ChunkWords(tweets[i])) >= 2

\* ------------------------------------------------------------------ C3
\* C3: an input without words gives zero chunks, and no returned chunk is
\* the empty string.
C3_NoEmptyChunk ==
    pc = "done" =>
        /\ (InputWords(content) = <<>> => tweets = <<>>)
        /\ \A i \in 1..Len(tweets) : tweets[i] # <<>>

\* ------------------------------------------------------------------ C4
\* C4: an input with at least one word whose words joined by single spaces
\* fit in maxLength gives exactly one chunk, that joined string.
C4_SingleChunkWhenFits ==
    (/\ pc = "done"
     /\ InputWords(content) # <<>>
     /\ Len(buildTweet(InputWords(content))) <= maxLength)
    => tweets = <<buildTweet(InputWords(content))>>

\* ------------------------------------------------------------------ C5
\* C5: when every returned chunk has length <= maxLength, segmenting the
\* chunks joined by single spaces returns the same chunks.
C5_ResegmentationStable ==
    (/\ pc = "done"
     /\ \A i \in 1..Len(tweets) : Len(tweets[i]) <= maxLength)
    => createTweets(buildTweet(tweets), maxLength) = tweets

\* ------------------------------------------------------------------ C6
\* The example of C6: maxLength 10, "Hi there. Bye now."
C6_Example ==
    createTweets(<<"H","i"," ","t","h","e","r","e","."," ","B","y","e"," ","n","o","w",".">>, 10)
    = << <<"H","i"," ","t","h","e","r","e",".">>, <<"B","y","e"," ","n","o","w",".">> >>

\* C6: when a word overflows and the marker is i, the one chunk cut is the
\* words buffer[0..i] joined by single spaces, it ends with a terminator, and
\* buffer[i+1..] stays ahead of the overflowing word: at the head of the new
\* buffer, or, before an over-long word, as the chunk before the word's parts.
C6_CutStep ==
    (OverflowStep /\ lastSentenceBreak # -1) =>
        LET i     == lastSentenceBreak
            w     == words[pos + 1]
            chunk == buildTweet(NonEmpty(SubSeq(currentWords, 1, i + 1)))
            rest  == SubSeq(currentWords, i + 2, Len(currentWords))
            n     == Len(tweets)
        IN /\ C6_Example
           /\ i < Len(currentWords)
           /\ Len(tweets') > n
           /\ SubSeq(tweets', 1, n) = tweets
           /\ tweets'[n + 1] = chunk
           /\ EndsSentence(chunk)
           /\ IF Len(w) <= maxLength
              THEN /\ Len(tweets') = n + 1
                   /\ currentWords' = rest \o <<w>>
              ELSE rest # <<>> => /\ Len(tweets') > n + 1
                                  /\ tweets'[n + 2] = buildTweet(rest)

C6_SentenceBreakCut == [][C6_CutStep]_vars

C6_Witness ==
    /\ CutWithRemainder
    /\ Len(words[pos]) <= maxLength
    /\ Len(buildTweet(PrevLoopState.cw)) + 2 <= maxLength

\* ------------------------------------------------------------------ C7
\* C7: once loaded, settings.maxTweetLength is a positive integer, and the
\* command never passes createTweets a maxLength that is not one.
C7_PositiveMaxTweetLength ==
    /\ loaded => (settings.kind = "num" /\ settings.v > 0)
    /\ callArg # Absent => (callArg.kind = "num" /\ callArg.v > 0)

\* ------------------------------------------------------------------ C8
WellSpaced(chunk) ==
    /\ chunk # <<>> => (~IsSpace(chunk[1]) /\ ~IsSpace(chunk[Len(chunk)]))
    /\ \A i \in 1..Len(chunk) : IsSpace(chunk[i]) => chunk[i] = " "
    /\ \A i \in 1..(Len(chunk) - 1) : ~(IsSpace(chunk[i]) /\ IsSpace(chunk[i + 1]))
    /\ chunk = buildTweet(ChunkWords(chunk))

\* C8: every chunk is its words separated by exactly one space, without
\* leading or trailing white space and without two spaces in a row.
C8_SingleSpaces ==
    \A i \in 1..Len(tweets) : WellSpaced(tweets[i])

C8_Witness ==
    /\ pc = "done"
    /\ content # <<>>
    /\ IsSpace(content[1])
    /\ IsSpace(content[Len(content)])
    /\ \E i \in 1..(Len(content) - 2) :
          ~IsSpace(content[i]) /\ IsSpace(content[i + 1]) /\ IsSpace(content[i + 2])
    /\ \E i \in 1..Len(tweets) : Len(ChunkWords(tweets[i])) >= 2

\* ------------------------------------------------------------------ C9
\* The marker is -1 if no buffer word ends a sentence, else the index of
\* the last buffer word that does.
MarkerConsistent(cw, lsb) ==
    LET ends == {i \in 0..(Len(cw) - 1) : EndsSentence(cw[i + 1])}
    IN IF ends = {}
       THEN lsb = -1
       ELSE /\ lsb \in ends
            /\ \A i \in ends : i <= lsb
            /\ lsb < Len(cw)

C9_Step ==
    /\ MarkerConsistent(currentWords, lastSentenceBreak)
    /\ MarkerConsistent(currentWords', lastSentenceBreak')
    /\ OverflowStep =>
          LET fl == FlushOnOverflow(LoopState)
          IN /\ fl.lsb = -1
             /\ \A i \in 1..Len(fl.cw) : ~EndsSentence(fl.cw[i])
             /\ lastSentenceBreak # -1 =>
                   fl.cw = SubSeq(currentWords, lastSentenceBreak + 2, Len(currentWords))

\* C9: after each word the marker is consistent with the buffer; right
\* after a flush it is -1 and the carried-over remainder has no word that
\* ends a sentence.
C9_MarkerConsistent == [][C9_Step]_vars

C9_Witness ==
    /\ CutWithRemainder
    /\ PrevLoopState.lsb >= 1
    /\ EndsSentence(PrevLoopState.cw[1])
    /\ lastSentenceBreak = Len(currentWords) - 1
    /\ Len(currentWords) >= 2

\* ----------------------------------------------------------------- C10
\* The example of C10: maxLength 5, "Supercalifragilistic"
C10_Example ==
    createTweets(<<"S","u","p","e","r","c","a","l","i","f","r","a","g","i","l","i","s","t","i","c">>, 5)
    = << <<"S","u","p","e","r">>, <<"c","a","l","i","f">>,
         <<"r","a","g","i","l">>, <<"i","s","t","i","c">> >>

C10_LongWordStep ==
    (/\ pc = "loop"
     /\ pos < Len(words)
     /\ pos' = pos + 1
     /\ Len(words[pos + 1]) > maxLength) =>
        LET w       == words[pos + 1]
            n       == CeilDiv(Len(w), maxLength)
            i       == lastSentenceBreak
            before  == IF i # -1
                       THEN <<SubSeq(currentWords, 1, i + 1),
                              SubSeq(currentWords, i + 2, Len(currentWords))>>
                       ELSE <<currentWords>>
            flushed == [k \in 1..Len(NonEmpty(before)) |->
                            buildTweet(NonEmpty(NonEmpty(before)[k]))]
        IN /\ C10_Example
           /\ tweets' = tweets \o flushed \o FixedWidthParts(w, maxLength)
           /\ \A k \in 1..n :
                 Len(tweets'[Len(tweets') - n + k]) = (IF k < n THEN maxLength
                                                       ELSE Len(w) - (n - 1) * maxLength)
           /\ currentWords' = <<>>
           /\ lastSentenceBreak' = -1

\* C10: a word longer than maxLength becomes exactly ceil(length/maxLength)
\* standalone chunks, its fixed-width slices; the buffer, carried over or
\* not, is flushed as chunks of its own before them and is never merged
\* with the first slice; afterwards the buffer is empty and the marker -1.
C10_LongWordStandalone == [][C10_LongWordStep]_vars

C10_Witness ==
    /\ CutWithRemainder
    /\ Len(words[pos]) > maxLength
    /\ Len(words[pos]) % maxLength # 0
    /\ currentWords = <<>>
    /\ Len(tweets) >= 4

====
